---- MODULE Spec2Model ----
(***************************************************************************)
(* fjord.js: TideToken, Estuary and Fjord (cascade / tributary) on the     *)
(* JavaScript event loop.  Promise reactions are jobs of a FIFO microtask  *)
(* queue mq; a timer callback (macrotask) runs only when mq is empty.      *)
(* The calls made on one Fjord are modelled from their invocation to after *)
(* their return; the body of a call and the undertakings it launches are   *)
(* inputs drawn in Init from the shapes used by the tests and the README.  *)
(***************************************************************************)
EXTENDS Integers, Sequences, FiniteSets, TLC

\* bound: number of flow() calls a body makes
MaxOps == 2

\* new Fjord({ timeout: 100 })
TimeoutMs == 100

BodyOps == 1..MaxOps
\* the undertaking that a running undertaking launches from inside itself
ChildOp == MaxOps + 1
Child(i) == ChildOp
OpIds == 1..ChildOp

\* ---- values and errors carried by promises ----
R(kind, src, n) == [kind |-> kind, src |-> src, n |-> n]
Pending == R("pending", "", 0)
OpValue(i) == R("value", "op", i)
OpError(i) == R("error", "op", i)
BodyValue == R("value", "body", 0)
BodyError == R("error", "body", 0)
AllValue(n) == R("value", "all", n)
\* new Error('Estuary frozen: scope closed or task error occurred')
ScopeClosed == R("error", "frozen", 0)
\* new Error(`Fjord timeout exceeded: ${this.timeout}ms`)
DeadlineExceeded(d) == R("error", "timeout", d)
\* a thrown value that is not an Error: throw 'cancelled'
ThrownValue == R("error", "string", 0)
\* the Error an onError handler throws
ObserverError == R("error", "observer", 0)
\* error instanceof Error
InstanceOfError(e) == e.kind = "error" /\ e.src # "string"

\* a promise reaction job of call c, about op (0: about the call itself)
J(job, c, op) == [job |-> job, call |-> c, op |-> op]

VARIABLES
  calls,        \* the calls made on the Fjord, numbered in the order made
  timeout,      \* Fjord.timeout (0: not configured)
  onError,      \* Fjord.onError: "none", or what the handler does
  observed,     \* the calls made to onError: <<error, mode>>
  mq,           \* microtask queue
  \* the variables below are per call
  policy,       \* which method is called: "cascade" or "tributary"
  body,         \* the scopeCallback: [kind, sleeps, n]
  undertaking,  \* the undertakings the body launches: [sleeps, fails, spawn]
  childBeh,     \* the undertaking launched from inside an undertaking
  frozen,       \* TideToken.signal.aborted, of the token of each call
  flows,        \* Estuary.flows (flowPromises, by op id)
  settled,      \* Estuary.settled
  flowP,        \* flowPromise of each op: "none","pending","ok","fail"
  thenP,        \* flowPromise.then(...) of each op
  future,       \* the promise flow() returned for each op
  opPc,         \* "unlaunched","queued","sleeping","done"
  runs,         \* how many times each undertaking was invoked
  bodyPc,       \* "idle","sleeping","returned","adopted","settling","done"
  bodyP,        \* the promise scopeCallback(estuary) returned
  comb,         \* the Promise.all / Promise.race promise of the body
  combLeft,     \* Promise.all: elements not yet fulfilled
  timer,        \* the setTimeout of _executeWithTimeout: "none","armed","fired"
  raceP,        \* the Promise.race of _executeWithTimeout
  callPc,       \* "idle","awaitExec","awaitSettle","done"
  exec,         \* what the await of _executeWithTimeout produced
  callResult,   \* what the call resolved to
  frozenAtDone, \* isFrozen() when the call resolved
  waitLeft,     \* elements Promise.allSettled of settle() still waits for
  awaited,      \* the Array.from(this.flows) snapshot of settle()
  settleRes,    \* per caller of settle(): "none","waiting","resolved"
  settleOwner,  \* the caller whose settle() runs Promise.allSettled
  bodyAtFire,   \* state of bodyP when the timer fired ("n/a" before)
  order         \* the ops in the order their flowPromise settled

inputs == <<calls, policy, timeout, onError, body, undertaking, childBeh>>
tokenVars == <<frozen>>
estuaryVars == <<flows, settled, waitLeft, awaited, settleRes, settleOwner>>
opVars == <<flowP, thenP, future, opPc, runs, order>>
bodyVars == <<bodyPc, bodyP, comb, combLeft>>
callVars == <<timer, raceP, callPc, exec, callResult, frozenAtDone, observed, bodyAtFire>>
vars == <<inputs, tokenVars, estuaryVars, opVars, bodyVars, callVars, mq>>

\* ---- inputs ----
Idle == [sleeps |-> FALSE, fails |-> FALSE, spawn |-> FALSE]
Undertakings == [sleeps : BOOLEAN, fails : BOOLEAN, spawn : BOOLEAN]
ChildUndertakings == [sleeps : {TRUE}, fails : BOOLEAN, spawn : {FALSE}]
\* bodies that use only EstuaryScope (flow, isFrozen)
ScopeBodyKinds == {"return", "throw", "all", "race"}
\* bodies that throw a value that is not an Error
ValueBodyKinds == {"throwValue"}
\* bodies that also call estuary.settle()
SettleBodyKinds == {"settleFire", "settleAwait"}
\* onError handlers that return: none configured, or one that records
ReturningObservers == {"none", "records"}
\* onError handlers, the one that throws included
Observers == ReturningObservers \cup {"throws"}
\* one call on the Fjord; two calls on the same Fjord
OneCall == {1}
TwoCalls == {1, 2}

Beh(c, i) == IF i \in BodyOps THEN undertaking[c][i] ELSE childBeh[c]
Spawns(c, i) == i \in BodyOps /\ undertaking[c][i].spawn

\* one token for all the calls of the Fjord
TokenOfFjord(c) == CHOOSE t \in calls : \A d \in calls : t <= d

\* const tideToken = new TideToken(): the token call c works with is its own
TokenOf(c) == c

\* TideToken.isFrozen, on the token of call c
IsFrozen(c) == frozen[TokenOf(c)]

\* a freeze() that flips the flag instead of setting it
FreezeToggles(f) == ~f

\* TideToken.freeze on a token whose flag is f: controller.abort() sets
\* signal.aborted, whatever it was
Freeze(f) == TRUE

TypeOK ==
  /\ calls \in {OneCall, TwoCalls}
  /\ policy \in [calls -> {"cascade", "tributary"}]
  /\ timeout \in {0, TimeoutMs}
  /\ frozen \in [calls -> BOOLEAN]
  /\ flows \in [calls -> SUBSET OpIds]
  /\ settled \in [calls -> BOOLEAN]
  /\ \A c \in calls : waitLeft[c] \subseteq awaited[c]

\* The inputs of one call.  The body launches undertakings 1..body.n at once
\* and then returns or throws (after a setTimeout when body.sleeps), or
\* returns Promise.all / Promise.race of the promises flow() gave it.  An
\* undertaking is an async function: it awaits a setTimeout or not, may
\* launch ChildOp into the scope as its last act (undertaking 1 only), and
\* returns or throws.  ChildOp awaits a setTimeout.
ValidCall(x) ==
  /\ x.body.kind \in {"all", "race", "settleFire", "settleAwait"} => ~x.body.sleeps
  /\ \A i \in BodyOps : i > x.body.n => x.undertaking[i] = Idle
  /\ \A i \in BodyOps : x.undertaking[i].spawn => i = 1
  /\ (\A i \in BodyOps : ~x.undertaking[i].spawn) => ~x.childBeh.fails

CallInputs(kinds) ==
  {x \in [policy : {"cascade", "tributary"},
          body : [kind : kinds, sleeps : BOOLEAN, n : 0..MaxOps],
          undertaking : [BodyOps -> Undertakings],
          childBeh : ChildUndertakings] : ValidCall(x)}

\* calls whose undertakings launch none
FlatCallInputs(kinds) ==
  {x \in CallInputs(kinds) : \A i \in BodyOps : ~x.undertaking[i].spawn}

\* calls whose body launches at most one undertaking, which launches none
SoloCallInputs(kinds) == {x \in FlatCallInputs(kinds) : x.body.n <= 1}

\* calls whose body awaits, with Promise.all, the one undertaking it
\* launched, which awaits a timer
BystanderCallInputs(kinds) ==
  {x \in SoloCallInputs(kinds) :
     x.body.kind = "all" /\ x.body.n = 1 /\ x.undertaking[1].sleeps}

\* new Fjord(options) and the calls C made on it, call c with inputs from S[c]
InitInputs(C, S, observers) ==
  /\ calls = C
  /\ timeout \in {0, TimeoutMs}
  /\ onError \in observers
  /\ \E f \in [C -> UNION {S[c] : c \in C}] :
       /\ \A c \in C : f[c] \in S[c]
       /\ policy = [c \in C |-> f[c].policy]
       /\ body = [c \in C |-> f[c].body]
       /\ undertaking = [c \in C |-> f[c].undertaking]
       /\ childBeh = [c \in C |-> f[c].childBeh]

InitState ==
  /\ frozen = [c \in calls |-> FALSE]
  /\ flows = [c \in calls |-> {}]
  /\ settled = [c \in calls |-> FALSE]
  /\ flowP = [c \in calls |-> [i \in OpIds |-> "none"]]
  /\ thenP = [c \in calls |-> [i \in OpIds |-> Pending]]
  /\ future = [c \in calls |-> [i \in OpIds |-> Pending]]
  /\ opPc = [c \in calls |-> [i \in OpIds |-> "unlaunched"]]
  /\ runs = [c \in calls |-> [i \in OpIds |-> 0]]
  /\ bodyPc = [c \in calls |-> "idle"]
  /\ bodyP = [c \in calls |-> Pending]
  /\ comb = [c \in calls |-> Pending]
  /\ combLeft = [c \in calls |-> 0]
  /\ timer = [c \in calls |-> "none"]
  /\ raceP = [c \in calls |-> Pending]
  /\ callPc = [c \in calls |-> "idle"]
  /\ exec = [c \in calls |-> Pending]
  /\ callResult = [c \in calls |-> Pending]
  /\ frozenAtDone = [c \in calls |-> FALSE]
  /\ observed = <<>>
  /\ waitLeft = [c \in calls |-> {}]
  /\ awaited = [c \in calls |-> {}]
  /\ settleRes = [c \in calls |-> [s \in {"orch", "body"} |-> "none"]]
  /\ settleOwner = [c \in calls |-> "none"]
  /\ bodyAtFire = [c \in calls |-> "n/a"]
  /\ order = [c \in calls |-> <<>>]
  /\ mq = <<>>

Init ==
  InitInputs(OneCall, [c \in OneCall |-> CallInputs(ScopeBodyKinds)], {"none"})
    /\ InitState


\* ---- the event loop ----
Enabled(job, c) == mq # <<>> /\ Head(mq) = J(job, c, 0)
EnabledFor(job, c, i) == mq # <<>> /\ Head(mq) = J(job, c, i)
\* a timer callback runs when no microtask is queued
TimerMayFire == mq = <<>>

RECURSIVE Ascending(_)
Ascending(S) ==
  IF S = {} THEN <<>>
  ELSE LET m == CHOOSE x \in S : \A y \in S : x <= y
       IN <<m>> \o Ascending(S \ {m})

Jobs(job, c, S) == LET o == Ascending(S) IN [k \in 1..Len(o) |-> J(job, c, o[k])]

\* reaction queued on the promise scopeCallback returned: Promise.race of
\* _executeWithTimeout when a timeout is configured, else the await itself
BodyReaction(c) == IF timeout # 0 THEN J("raceBody", c, 0) ELSE J("resume", c, 0)

\* ---- Estuary.flow ----
\* flow() without its guard: no launch is refused
FlowRefusesNever(c) == FALSE

\* the guard of flow(): the launch is refused
FlowRefuses(c) == IsFrozen(c)

\* flow() invoking the undertaking itself instead of deferring it with
\* Promise.resolve().then: no start job is queued
FlowCallRunsNow(c, k, q, rest) ==
  IF FlowRefuses(c)
    THEN /\ future' = [future EXCEPT ![c][k] = ScopeClosed]
         /\ flows' = flows
         /\ flowP' = flowP
         /\ mq' = q \o rest
    ELSE /\ future' = future
         /\ flows' = [flows EXCEPT ![c] = @ \cup {k}]
         /\ flowP' = [flowP EXCEPT ![c][k] = "pending"]
         /\ mq' = q \o rest

\* flow(undertaking) called in call c for op k from a running undertaking,
\* which drops the returned promise (q: the queue before the call, rest: the
\* jobs the caller queues after it)
FlowCall(c, k, q, rest) ==
  IF FlowRefuses(c)
    THEN /\ future' = [future EXCEPT ![c][k] = ScopeClosed]
         /\ flows' = flows
         /\ flowP' = flowP
         /\ mq' = q \o rest
    ELSE /\ future' = future
         /\ flows' = [flows EXCEPT ![c] = @ \cup {k}]
         /\ flowP' = [flowP EXCEPT ![c][k] = "pending"]
         /\ mq' = Append(q, J("start", c, k)) \o rest

\* the undertaking of op i runs from where it stands to its end: it may
\* launch its child, performs its effect, then returns or throws
\* (q: the queue before, after: the job that settles flowPromise i)
Complete(c, i, q, after) ==
  /\ IF Spawns(c, i)
       THEN FlowCall(c, Child(i), q, <<after>>)
       ELSE /\ mq' = Append(q, after)
            /\ UNCHANGED <<future, flows, flowP>>
  /\ opPc' = [opPc EXCEPT ![c] =
                [j \in OpIds |->
                   IF j = i THEN "done"
                   ELSE IF Spawns(c, i) /\ j = Child(i) /\ ~FlowRefuses(c) THEN "queued"
                   ELSE opPc[c][j]]]

\* a deferred start that skips the undertaking when the token is armed
FlowStartUnlessFrozen(c, i) ==
  /\ EnabledFor("start", c, i)
  /\ IF IsFrozen(c)
       THEN /\ mq' = Tail(mq)
            /\ UNCHANGED <<runs, opPc, future, flows, flowP>>
       ELSE /\ runs' = [runs EXCEPT ![c][i] = @ + 1]
            /\ IF Beh(c, i).sleeps
                 THEN /\ opPc' = [opPc EXCEPT ![c][i] = "sleeping"]
                      /\ mq' = Tail(mq)
                      /\ UNCHANGED <<future, flows, flowP>>
                 ELSE Complete(c, i, Tail(mq), J("adopt", c, i))
  /\ UNCHANGED <<inputs, tokenVars, settled, waitLeft, awaited, settleRes,
                 settleOwner, thenP, order, bodyVars, callVars>>

\* Promise.resolve().then(() => undertaking()): the undertaking is invoked
FlowStart(c, i) ==
  /\ EnabledFor("start", c, i)
  /\ runs' = [runs EXCEPT ![c][i] = @ + 1]
  /\ IF Beh(c, i).sleeps
       THEN /\ opPc' = [opPc EXCEPT ![c][i] = "sleeping"]
            /\ mq' = Tail(mq)
            /\ UNCHANGED <<future, flows, flowP>>
       ELSE Complete(c, i, Tail(mq), J("adopt", c, i))
  /\ UNCHANGED <<inputs, tokenVars, settled, waitLeft, awaited, settleRes,
                 settleOwner, thenP, order, bodyVars, callVars>>

\* the setTimeout an undertaking awaits fires; the undertaking resumes
OpTimer(c, i) ==
  /\ TimerMayFire
  /\ c \in calls
  /\ opPc[c][i] = "sleeping"
  /\ Complete(c, i, mq, J("flowSettle", c, i))
  /\ UNCHANGED <<inputs, tokenVars, settled, waitLeft, awaited, settleRes,
                 settleOwner, thenP, runs, order, bodyVars, callVars>>

\* flowPromise was resolved with the promise of an async undertaking that
\* had already settled: one more job until flowPromise settles
FlowAdopt(c, i) ==
  /\ EnabledFor("adopt", c, i)
  /\ mq' = Append(Tail(mq), J("flowSettle", c, i))
  /\ UNCHANGED <<inputs, tokenVars, estuaryVars, opVars, bodyVars, callVars>>

\* flowPromise settles; its reactions are queued in the order they were
\* registered: the handlers of flow(), then Promise.allSettled of settle()
FlowSettle(c, i) ==
  /\ EnabledFor("flowSettle", c, i)
  /\ flowP' = [flowP EXCEPT ![c][i] = IF Beh(c, i).fails THEN "fail" ELSE "ok"]
  /\ order' = [order EXCEPT ![c] = Append(@, i)]
  /\ mq' = Tail(mq) \o <<J("flowThen", c, i)>>
             \o (IF i \in waitLeft[c] THEN <<J("settleElem", c, i)>> ELSE <<>>)
  /\ UNCHANGED <<inputs, tokenVars, estuaryVars, thenP, future, opPc, runs,
                 bodyVars, callVars>>

\* the rejection handler without its `throw error`: the promise of then()
\* fulfils with undefined
FlowThenSwallows(c, i) ==
  /\ EnabledFor("flowThen", c, i)
  /\ frozen' = IF flowP[c][i] = "fail"
                 THEN [frozen EXCEPT ![TokenOf(c)] = Freeze(@)] ELSE frozen
  /\ thenP' = [thenP EXCEPT ![c][i] = IF flowP[c][i] = "fail"
                                         THEN R("value", "undefined", 0)
                                         ELSE OpValue(i)]
  /\ mq' = Append(Tail(mq), J("flowFinally", c, i))
  /\ UNCHANGED <<inputs, estuaryVars, flowP, future, opPc, runs, order,
                 bodyVars, callVars>>

\* the rejection handler without its this.tideToken.freeze()
FlowThenNoFreeze(c, i) ==
  /\ EnabledFor("flowThen", c, i)
  /\ thenP' = [thenP EXCEPT ![c][i] = IF flowP[c][i] = "fail" THEN OpError(i)
                                         ELSE OpValue(i)]
  /\ mq' = Append(Tail(mq), J("flowFinally", c, i))
  /\ UNCHANGED <<inputs, tokenVars, estuaryVars, flowP, future, opPc, runs, order,
                 bodyVars, callVars>>

\* .then((result) => result, (error) => { this.tideToken.freeze(); throw error; })
FlowThen(c, i) ==
  /\ EnabledFor("flowThen", c, i)
  /\ frozen' = IF flowP[c][i] = "fail"
                 THEN [frozen EXCEPT ![TokenOf(c)] = Freeze(@)] ELSE frozen
  /\ thenP' = [thenP EXCEPT ![c][i] = IF flowP[c][i] = "fail" THEN OpError(i)
                                         ELSE OpValue(i)]
  /\ mq' = Append(Tail(mq), J("flowFinally", c, i))
  /\ UNCHANGED <<inputs, estuaryVars, flowP, future, opPc, runs, order,
                 bodyVars, callVars>>

\* flow() without the delete in its finally handler
FlowFinallyKeeps(c, i) ==
  /\ EnabledFor("flowFinally", c, i)
  /\ mq' = Append(Tail(mq), J("futureAdopt", c, i))
  /\ UNCHANGED <<inputs, tokenVars, estuaryVars, opVars, bodyVars, callVars>>

\* .finally(() => { this.flows.delete(flowPromise); })
FlowFinally(c, i) ==
  /\ EnabledFor("flowFinally", c, i)
  /\ flows' = [flows EXCEPT ![c] = @ \ {i}]
  /\ mq' = Append(Tail(mq), J("futureAdopt", c, i))
  /\ UNCHANGED <<inputs, tokenVars, settled, waitLeft, awaited, settleRes,
                 settleOwner, opVars, bodyVars, callVars>>

\* the promise of finally() is resolved with a promise: one more job
FutureAdopt(c, i) ==
  /\ EnabledFor("futureAdopt", c, i)
  /\ mq' = Append(Tail(mq), J("futureSettle", c, i))
  /\ UNCHANGED <<inputs, tokenVars, estuaryVars, opVars, bodyVars, callVars>>

\* the body passed the promises of its flow() calls to Promise.all / race
BodyCombines(c, i) == body[c].kind \in {"all", "race"} /\ i \in 1..body[c].n

\* the promise flow() returned settles as thenP did
FutureSettle(c, i) ==
  /\ EnabledFor("futureSettle", c, i)
  /\ future' = [future EXCEPT ![c][i] = thenP[c][i]]
  /\ mq' = Tail(mq) \o (IF BodyCombines(c, i) THEN <<J("bodyElem", c, i)>> ELSE <<>>)
  /\ UNCHANGED <<inputs, tokenVars, estuaryVars, flowP, thenP, opPc, runs,
                 order, bodyVars, callVars>>

\* ---- Estuary.settle ----
\* a settle() that awaits Promise.allSettled([]) instead of the tracked flows
SettleAwaitsNothing(c, caller, F, P, q, cont, rest) ==
  IF settled[c]
    THEN /\ settleRes' = [settleRes EXCEPT ![c][caller] = "resolved"]
         /\ mq' = q \o cont \o rest
         /\ UNCHANGED <<settled, waitLeft, awaited, settleOwner>>
    ELSE /\ settled' = [settled EXCEPT ![c] = TRUE]
         /\ awaited' = [awaited EXCEPT ![c] = {}]
         /\ waitLeft' = [waitLeft EXCEPT ![c] = {}]
         /\ settleRes' = [settleRes EXCEPT ![c][caller] = "waiting"]
         /\ settleOwner' = [settleOwner EXCEPT ![c] = caller]
         /\ mq' = q \o <<J("settleResume", c, 0)>> \o rest

\* settle() called in call c by caller when the tracked set is F and the
\* flowPromises stand as in P (q: the queue before the call, cont: the
\* continuation of the caller's await, queued at once when settle() returns
\* at its guard, rest: what the caller queues next)
Settle(c, caller, F, P, q, cont, rest) ==
  IF settled[c]
    THEN /\ settleRes' = [settleRes EXCEPT ![c][caller] = "resolved"]
         /\ mq' = q \o cont \o rest
         /\ UNCHANGED <<settled, waitLeft, awaited, settleOwner>>
    ELSE /\ settled' = [settled EXCEPT ![c] = TRUE]
         /\ awaited' = [awaited EXCEPT ![c] = F]
         /\ waitLeft' = [waitLeft EXCEPT ![c] = F]
         /\ settleRes' = [settleRes EXCEPT ![c][caller] = "waiting"]
         /\ settleOwner' = [settleOwner EXCEPT ![c] = caller]
         /\ mq' = q \o Jobs("settleElem", c, {i \in F : P[i] # "pending"})
                    \o (IF F = {} THEN <<J("settleResume", c, 0)>> ELSE <<>>)
                    \o rest

\* Promise.allSettled: the reaction on one settled flowPromise
SettleElem(c, i) ==
  /\ EnabledFor("settleElem", c, i)
  /\ waitLeft' = [waitLeft EXCEPT ![c] = @ \ {i}]
  /\ mq' = Tail(mq) \o (IF waitLeft'[c] = {} THEN <<J("settleResume", c, 0)>> ELSE <<>>)
  /\ UNCHANGED <<inputs, tokenVars, flows, settled, awaited, settleRes,
                 settleOwner, opVars, bodyVars, callVars>>

\* settle() with Promise.all and no catch: a failed flow rejects it
SettleOutcomeOfAll(c, F) ==
  IF \E i \in F : flowP[c][i] = "fail" THEN "rejected" ELSE "resolved"

\* how the promise of settle() settles once the flows F it awaited have:
\* try { await Promise.allSettled(...) } catch {} completes normally
SettleOutcome(c, F) == "resolved"

\* settle() resumes after its await and returns; its caller's await is next
SettleResume(c) ==
  /\ Enabled("settleResume", c)
  /\ settleRes' = [settleRes EXCEPT ![c][settleOwner[c]] = SettleOutcome(c, awaited[c])]
  /\ mq' = Tail(mq) \o
       (IF settleOwner[c] = "orch" THEN <<J("afterSettle", c, 0)>>
        ELSE IF body[c].kind = "settleAwait" THEN <<J("bodyAfterSettle", c, 0)>>
        ELSE <<>>)
  /\ UNCHANGED <<inputs, tokenVars, flows, settled, waitLeft, awaited,
                 settleOwner, opVars, bodyVars, callVars>>

\* ---- the scopeCallback ----
\* the body reaches its return or throw without a combinator
BodyOutcome(c) ==
  IF body[c].kind = "throw" THEN BodyError
  ELSE IF body[c].kind = "throwValue" THEN ThrownValue
  ELSE BodyValue

\* reaction of the body's Promise.all / Promise.race on one flow() promise
BodyElem(c, i) ==
  LET left == IF body[c].kind = "all" /\ future[c][i].kind = "value"
                THEN combLeft[c] - 1 ELSE combLeft[c]
      new == IF comb[c].kind # "pending" THEN comb[c]
             ELSE IF body[c].kind = "race" THEN future[c][i]
             ELSE IF future[c][i].kind = "error" THEN future[c][i]
             ELSE IF left = 0 THEN AllValue(body[c].n)
             ELSE comb[c]
  IN
  /\ EnabledFor("bodyElem", c, i)
  /\ combLeft' = [combLeft EXCEPT ![c] = left]
  /\ comb' = [comb EXCEPT ![c] = new]
  /\ mq' = Tail(mq) \o
       (IF comb[c].kind = "pending" /\ new.kind # "pending" /\ bodyPc[c] = "adopted"
          THEN <<J("bodySettle", c, 0)>> ELSE <<>>)
  /\ UNCHANGED <<inputs, tokenVars, estuaryVars, opVars, bodyPc, bodyP, callVars>>

\* the async body returned the combinator's promise: its own promise
\* follows it
BodyAdopt(c) ==
  /\ Enabled("bodyAdopt", c)
  /\ bodyPc' = [bodyPc EXCEPT ![c] = "adopted"]
  /\ mq' = Tail(mq) \o (IF comb[c].kind # "pending" THEN <<J("bodySettle", c, 0)>> ELSE <<>>)
  /\ UNCHANGED <<inputs, tokenVars, estuaryVars, opVars, bodyP, comb, combLeft, callVars>>

BodySettle(c) ==
  /\ Enabled("bodySettle", c)
  /\ bodyP' = [bodyP EXCEPT ![c] = comb[c]]
  /\ bodyPc' = [bodyPc EXCEPT ![c] = "done"]
  /\ mq' = Append(Tail(mq), BodyReaction(c))
  /\ UNCHANGED <<inputs, tokenVars, estuaryVars, opVars, comb, combLeft, callVars>>

\* the setTimeout the body awaits fires; the body returns or throws
BodyTimer(c) ==
  /\ TimerMayFire
  /\ c \in calls
  /\ bodyPc[c] = "sleeping"
  /\ bodyP' = [bodyP EXCEPT ![c] = BodyOutcome(c)]
  /\ bodyPc' = [bodyPc EXCEPT ![c] = "done"]
  /\ mq' = <<BodyReaction(c)>>
  /\ UNCHANGED <<inputs, tokenVars, estuaryVars, opVars, comb, combLeft, callVars>>

\* the body resumes after `await estuary.settle()` and returns
BodyAfterSettle(c) ==
  /\ Enabled("bodyAfterSettle", c)
  /\ bodyP' = [bodyP EXCEPT ![c] = BodyValue]
  /\ bodyPc' = [bodyPc EXCEPT ![c] = "done"]
  /\ mq' = Append(Tail(mq), BodyReaction(c))
  /\ UNCHANGED <<inputs, tokenVars, estuaryVars, opVars, comb, combLeft, callVars>>

\* ---- Fjord ----
\* cascade(scopeCallback) / tributary(scopeCallback) up to their first
\* await: new TideToken, new Estuary, scopeCallback(estuary) run to its first
\* suspension (its flow() calls are admitted: the token is new), then
\* _executeWithTimeout.  The caller makes its calls in order, at any point
\* between two jobs.
Invoke(c) ==
  LET F == 1..body[c].n
      P == [i \in OpIds |-> IF i \in F THEN "pending" ELSE "none"]
      starts == Jobs("start", c, F)
      plain == body[c].kind \in {"return", "throw", "throwValue"}
      viaSettle == body[c].kind \in SettleBodyKinds
  IN
  /\ callPc[c] = "idle"
  /\ \A d \in calls : d < c => callPc[d] # "idle"
  /\ callPc' = [callPc EXCEPT ![c] = "awaitExec"]
  /\ frozen' = [frozen EXCEPT ![TokenOf(c)] = FALSE]
  /\ flows' = [flows EXCEPT ![c] = F]
  /\ flowP' = [flowP EXCEPT ![c] = P]
  /\ opPc' = [opPc EXCEPT ![c] = [i \in OpIds |-> IF i \in F THEN "queued" ELSE "unlaunched"]]
  /\ comb' = [comb EXCEPT ![c] = IF body[c].kind = "all" /\ body[c].n = 0
                                    THEN AllValue(0) ELSE Pending]
  /\ combLeft' = [combLeft EXCEPT ![c] = IF body[c].kind = "all" THEN body[c].n ELSE 0]
  /\ bodyP' = [bodyP EXCEPT ![c] =
                 IF (plain /\ ~body[c].sleeps) \/ body[c].kind = "settleFire"
                   THEN BodyOutcome(c) ELSE Pending]
  /\ bodyPc' = [bodyPc EXCEPT ![c] =
                  IF body[c].kind \in {"all", "race"} THEN "returned"
                  ELSE IF body[c].kind = "settleAwait" THEN "settling"
                  ELSE IF body[c].sleeps THEN "sleeping"
                  ELSE "done"]
  /\ IF viaSettle
       THEN Settle(c, "body", F, P, mq \o starts,
                   IF body[c].kind = "settleAwait"
                     THEN <<J("bodyAfterSettle", c, 0)>> ELSE <<>>,
                   IF body[c].kind = "settleFire" THEN <<BodyReaction(c)>> ELSE <<>>)
       ELSE /\ mq' = mq \o starts \o
                 (IF body[c].kind \in {"all", "race"} THEN <<J("bodyAdopt", c, 0)>>
                  ELSE IF body[c].sleeps THEN <<>>
                  ELSE <<BodyReaction(c)>>)
            /\ settled' = [settled EXCEPT ![c] = FALSE]
            /\ UNCHANGED <<waitLeft, awaited, settleRes, settleOwner>>
  /\ timer' = [timer EXCEPT ![c] = IF timeout # 0 THEN "armed" ELSE "none"]
  /\ UNCHANGED <<inputs, thenP, future, runs, order, raceP, exec,
                 callResult, frozenAtDone, observed, bodyAtFire>>

Cascade(c) == c \in calls /\ policy[c] = "cascade" /\ Invoke(c)

Tributary(c) == c \in calls /\ policy[c] = "tributary" /\ Invoke(c)

\* Promise.race of _executeWithTimeout: the reaction on the body's promise
RaceBody(c) ==
  /\ Enabled("raceBody", c)
  /\ raceP' = [raceP EXCEPT ![c] = IF @.kind = "pending" THEN bodyP[c] ELSE @]
  /\ mq' = Tail(mq) \o (IF raceP[c].kind = "pending" THEN <<J("resume", c, 0)>> ELSE <<>>)
  /\ UNCHANGED <<inputs, tokenVars, estuaryVars, opVars, bodyVars, timer,
                 callPc, exec, callResult, frozenAtDone, observed, bodyAtFire>>

\* the timer callback without its reject(...): the race never sees the timer
RaceTimerDropped(c) ==
  /\ Enabled("raceTimer", c)
  /\ mq' = Tail(mq)
  /\ UNCHANGED <<inputs, tokenVars, estuaryVars, opVars, bodyVars, callVars>>

\* a race that a late rejection of the timer's promise settles again
RaceTimerOverrides(c) ==
  /\ Enabled("raceTimer", c)
  /\ raceP' = [raceP EXCEPT ![c] = DeadlineExceeded(timeout)]
  /\ mq' = Tail(mq) \o (IF raceP[c].kind = "pending" THEN <<J("resume", c, 0)>> ELSE <<>>)
  /\ UNCHANGED <<inputs, tokenVars, estuaryVars, opVars, bodyVars, timer,
                 callPc, exec, callResult, frozenAtDone, observed, bodyAtFire>>

\* Promise.race of _executeWithTimeout: the reaction on the timer's promise
RaceTimer(c) ==
  /\ Enabled("raceTimer", c)
  /\ raceP' = [raceP EXCEPT ![c] = IF @.kind = "pending" THEN DeadlineExceeded(timeout) ELSE @]
  /\ mq' = Tail(mq) \o (IF raceP[c].kind = "pending" THEN <<J("resume", c, 0)>> ELSE <<>>)
  /\ UNCHANGED <<inputs, tokenVars, estuaryVars, opVars, bodyVars, timer,
                 callPc, exec, callResult, frozenAtDone, observed, bodyAtFire>>

\* a timer callback that rejects without tideToken.freeze()
DeadlineTimerNoFreeze(c) ==
  /\ TimerMayFire
  /\ c \in calls
  /\ timer[c] = "armed"
  /\ \A d \in calls : d < c => timer[d] # "armed"
  /\ timer' = [timer EXCEPT ![c] = "fired"]
  /\ bodyAtFire' = [bodyAtFire EXCEPT ![c] = bodyP[c].kind]
  /\ mq' = <<J("raceTimer", c, 0)>>
  /\ UNCHANGED <<inputs, tokenVars, estuaryVars, opVars, bodyVars, raceP, callPc,
                 exec, callResult, frozenAtDone, observed>>

\* setTimeout(() => { tideToken.freeze(); reject(...) }, this.timeout); the
\* timers of two calls have the same delay and fire in the order set
DeadlineTimer(c) ==
  /\ TimerMayFire
  /\ c \in calls
  /\ timer[c] = "armed"
  /\ \A d \in calls : d < c => timer[d] # "armed"
  /\ timer' = [timer EXCEPT ![c] = "fired"]
  /\ frozen' = [frozen EXCEPT ![TokenOf(c)] = Freeze(@)]
  /\ bodyAtFire' = [bodyAtFire EXCEPT ![c] = bodyP[c].kind]
  /\ mq' = <<J("raceTimer", c, 0)>>
  /\ UNCHANGED <<inputs, estuaryVars, opVars, bodyVars, raceP, callPc, exec,
                 callResult, frozenAtDone, observed>>

\* what `await this._executeWithTimeout(...)` yields
Awaited(c) == IF timeout # 0 THEN raceP[c] ELSE bodyP[c]

\* a cascade that freezes on its success path too, as tributary does
CascadeResumeFreezes(c) ==
  /\ Enabled("resume", c)
  /\ policy[c] = "cascade"
  /\ exec' = [exec EXCEPT ![c] = Awaited(c)]
  /\ callPc' = [callPc EXCEPT ![c] = "awaitSettle"]
  /\ frozen' = [frozen EXCEPT ![TokenOf(c)] = Freeze(@)]
  /\ Settle(c, "orch", flows[c], flowP[c], Tail(mq), <<J("afterSettle", c, 0)>>, <<>>)
  /\ UNCHANGED <<inputs, flows, opVars, bodyVars, timer, raceP, callResult,
                 frozenAtDone, observed, bodyAtFire>>

\* cascade resumes after the await: on a value it settles, on an error it
\* freezes and settles
CascadeResume(c) ==
  /\ Enabled("resume", c)
  /\ policy[c] = "cascade"
  /\ exec' = [exec EXCEPT ![c] = Awaited(c)]
  /\ callPc' = [callPc EXCEPT ![c] = "awaitSettle"]
  /\ frozen' = IF Awaited(c).kind = "error"
                 THEN [frozen EXCEPT ![TokenOf(c)] = Freeze(@)] ELSE frozen
  /\ Settle(c, "orch", flows[c], flowP[c], Tail(mq), <<J("afterSettle", c, 0)>>, <<>>)
  /\ UNCHANGED <<inputs, flows, opVars, bodyVars, timer, raceP, callResult,
                 frozenAtDone, observed, bodyAtFire>>

\* a tributary that freezes on its failure path only, as cascade does
TributaryResumeAsCascade(c) ==
  /\ Enabled("resume", c)
  /\ policy[c] = "tributary"
  /\ exec' = [exec EXCEPT ![c] = Awaited(c)]
  /\ callPc' = [callPc EXCEPT ![c] = "awaitSettle"]
  /\ frozen' = IF Awaited(c).kind = "error"
                 THEN [frozen EXCEPT ![TokenOf(c)] = Freeze(@)] ELSE frozen
  /\ Settle(c, "orch", flows[c], flowP[c], Tail(mq), <<J("afterSettle", c, 0)>>, <<>>)
  /\ UNCHANGED <<inputs, flows, opVars, bodyVars, timer, raceP, callResult,
                 frozenAtDone, observed, bodyAtFire>>

\* tributary resumes after the await: it freezes and settles on both paths
TributaryResume(c) ==
  /\ Enabled("resume", c)
  /\ policy[c] = "tributary"
  /\ exec' = [exec EXCEPT ![c] = Awaited(c)]
  /\ callPc' = [callPc EXCEPT ![c] = "awaitSettle"]
  /\ frozen' = [frozen EXCEPT ![TokenOf(c)] = Freeze(@)]
  /\ Settle(c, "orch", flows[c], flowP[c], Tail(mq), <<J("afterSettle", c, 0)>>, <<>>)
  /\ UNCHANGED <<inputs, flows, opVars, bodyVars, timer, raceP, callResult,
                 frozenAtDone, observed, bodyAtFire>>

\* the catch block calls this.onError(error, mode)
Observes(c) == exec[c].kind = "error" /\ onError # "none" /\ InstanceOfError(exec[c])

\* a success path that returns what `await estuary.settle()` gave instead of
\* result
FinishReturnsSettle(c, mode) ==
  /\ Enabled("afterSettle", c)
  /\ callPc' = [callPc EXCEPT ![c] = "done"]
  /\ callResult' = [callResult EXCEPT ![c] =
                      IF exec[c].kind = "value" THEN R("value", "undefined", 0)
                      ELSE IF Observes(c) /\ onError = "throws" THEN ObserverError
                      ELSE exec[c]]
  /\ frozenAtDone' = [frozenAtDone EXCEPT ![c] = IsFrozen(c)]
  /\ observed' = IF Observes(c) THEN Append(observed, <<exec[c], mode>>) ELSE observed
  /\ mq' = Tail(mq)
  /\ UNCHANGED <<inputs, tokenVars, estuaryVars, opVars, bodyVars, timer,
                 raceP, exec, bodyAtFire>>

\* after `await estuary.settle()`: return result, or onError and throw error;
\* what a throwing handler throws leaves the catch block in place of error
Finish(c, mode) ==
  /\ Enabled("afterSettle", c)
  /\ callPc' = [callPc EXCEPT ![c] = "done"]
  /\ callResult' = [callResult EXCEPT ![c] =
                      IF Observes(c) /\ onError = "throws" THEN ObserverError ELSE exec[c]]
  /\ frozenAtDone' = [frozenAtDone EXCEPT ![c] = IsFrozen(c)]
  /\ observed' = IF Observes(c) THEN Append(observed, <<exec[c], mode>>) ELSE observed
  /\ mq' = Tail(mq)
  /\ UNCHANGED <<inputs, tokenVars, estuaryVars, opVars, bodyVars, timer,
                 raceP, exec, bodyAtFire>>

CascadeFinish(c) == c \in calls /\ policy[c] = "cascade" /\ Finish(c, "cascade")

\* the catch block of tributary reporting with the tag of cascade
TributaryFinishCascadeTag(c) ==
  c \in calls /\ policy[c] = "tributary" /\ Finish(c, "cascade")

TributaryFinish(c) ==
  c \in calls /\ policy[c] = "tributary" /\ Finish(c, "tributary")

Next ==
  \/ \E c \in TwoCalls : Cascade(c)
  \/ \E c \in TwoCalls : Tributary(c)
  \/ \E c \in TwoCalls, i \in OpIds : FlowStart(c, i)
  \/ \E c \in TwoCalls, i \in OpIds : OpTimer(c, i)
  \/ \E c \in TwoCalls, i \in OpIds : FlowAdopt(c, i)
  \/ \E c \in TwoCalls, i \in OpIds : FlowSettle(c, i)
  \/ \E c \in TwoCalls, i \in OpIds : FlowThen(c, i)
  \/ \E c \in TwoCalls, i \in OpIds : FlowFinally(c, i)
  \/ \E c \in TwoCalls, i \in OpIds : FutureAdopt(c, i)
  \/ \E c \in TwoCalls, i \in OpIds : FutureSettle(c, i)
  \/ \E c \in TwoCalls, i \in OpIds : SettleElem(c, i)
  \/ \E c \in TwoCalls : SettleResume(c)
  \/ \E c \in TwoCalls, i \in OpIds : BodyElem(c, i)
  \/ \E c \in TwoCalls : BodyAdopt(c)
  \/ \E c \in TwoCalls : BodySettle(c)
  \/ \E c \in TwoCalls : BodyTimer(c)
  \/ \E c \in TwoCalls : RaceBody(c)
  \/ \E c \in TwoCalls : RaceTimer(c)
  \/ \E c \in TwoCalls : DeadlineTimer(c)
  \/ \E c \in TwoCalls : CascadeResume(c)
  \/ \E c \in TwoCalls : TributaryResume(c)
  \/ \E c \in TwoCalls : CascadeFinish(c)
  \/ \E c \in TwoCalls : TributaryFinish(c)

Spec == Init /\ [][Next]_vars

\* the event loop keeps running: a queued job is run, a due timer fires
\* (inputs: no onError handler, which runs once the call is past its awaits;
\* an undertaking that launches ChildOp does so without awaiting a timer
\* first, so that ChildOp is tracked when the call drains; ChildOp succeeds)
InitFair ==
  /\ Init
  /\ \A c \in calls : ~childBeh[c].fails
  /\ \A c \in calls : \A i \in BodyOps : undertaking[c][i].spawn => ~undertaking[c][i].sleeps

FairSpec == InitFair /\ [][Next]_vars /\ WF_vars(Next)

\* the same program with every kind of onError handler and thrown value
InitObserver ==
  InitInputs(OneCall, [c \in OneCall |-> FlatCallInputs(ScopeBodyKinds \cup ValueBodyKinds)],
             Observers)
    /\ InitState

SpecObserver == InitObserver /\ [][Next]_vars

\* the same program when the scopeCallback also calls estuary.settle()
InitSettle ==
  InitInputs(OneCall, [c \in OneCall |-> CallInputs(ScopeBodyKinds \cup SettleBodyKinds)],
             {"none"})
    /\ InitState

NextSettle == Next \/ \E c \in TwoCalls : BodyAfterSettle(c)

SpecSettle == InitSettle /\ [][NextSettle]_vars

\* two calls on one Fjord, the second made at any point after the first
CallsInputs ==
  [c \in TwoCalls |-> IF c = 1 THEN SoloCallInputs(ScopeBodyKinds)
                      ELSE BystanderCallInputs(ScopeBodyKinds)]

InitCalls == InitInputs(TwoCalls, CallsInputs, {"none"}) /\ InitState

SpecCalls == InitCalls /\ [][Next]_vars

\* ---- vocabulary of the properties ----
Done(c) == callPc[c] = "done"
\* the step at which call c resolves
Resolves(c) == callPc[c] # "done" /\ callPc'[c] = "done"
Launched(c, i) == flowP[c][i] # "none"
\* the first body op of call c whose flowPromise fulfilled (0: none)
FirstSuccess(c) ==
  LET oks == {k \in 1..Len(order[c]) :
                order[c][k] \in BodyOps /\ flowP[c][order[c][k]] = "ok"}
  IN IF oks = {} THEN 0 ELSE order[c][CHOOSE k \in oks : \A m \in oks : k <= m]
NoDeadline == timeout = 0

\* C1: in a cascade in which a launched operation has failed, the call
\* raises the error of one of the failed operations; it never returns a
\* value.
C1_CascadeRaisesOperationError ==
  [][\A c \in calls :
       (Resolves(c) /\ policy[c] = "cascade" /\ NoDeadline /\ body[c].kind # "throw"
          /\ \E k \in OpIds : flowP'[c][k] = "fail")
         => (callResult'[c].kind = "error"
               /\ \E k \in OpIds : flowP'[c][k] = "fail" /\ callResult'[c] = OpError(k))]_vars

\* C2: when a cascade returns a value, every operation launched into its
\* scope has reached a terminal state.
C2_CascadeReturnsAfterAllTerminal ==
  [][\A c \in calls :
       (Resolves(c) /\ policy[c] = "cascade" /\ callResult'[c].kind = "value")
         => \A i \in OpIds : flowP'[c][i] # "pending"]_vars

\* C3: a tributary whose body races its operations and in which an
\* operation succeeds returns the value of the first operation to succeed,
\* with the token armed at resolution.
C3_TributaryReturnsFirstSuccess ==
  [][\A c \in calls :
       (Resolves(c) /\ policy[c] = "tributary" /\ body[c].kind = "race" /\ NoDeadline
          /\ FirstSuccess(c)' # 0)
         => (callResult'[c] = OpValue(FirstSuccess(c)') /\ IsFrozen(c)')]_vars

\* C4: when a cascade or tributary call resolves, with a value or an error,
\* the tracking collection is empty.
C4_NoTrackedOperationOutlivesCall ==
  [][\A c \in calls : Resolves(c) => flows'[c] = {}]_vars

\* C5: when the deadline timer fires while the body's promise is pending,
\* the call resolves only by raising the timeout error carrying the
\* configured duration, and the token is armed from then on.
C5_DeadlineRaisesTimeout ==
  \A c \in calls :
    (timer[c] = "fired" /\ bodyAtFire[c] = "pending" /\ Done(c))
      => (callResult[c] = R("error", "timeout", TimeoutMs) /\ IsFrozen(c)
            /\ frozenAtDone[c])

C5_Witness ==
  \E c \in calls :
    /\ Done(c)
    /\ bodyAtFire[c] = "pending"
    /\ callResult[c] = R("error", "timeout", TimeoutMs)
    /\ \E i \in OpIds : flowP[c][i] = "ok"

C7_SettleNeverResolvesEarly ==
  [][\A c \in calls : \A s \in {"orch", "body"} :
       (settleRes[c][s] # "resolved" /\ settleRes'[c][s] = "resolved"
          /\ settleRes'[c]["body"] # "none" /\ settleRes'[c]["orch"] # "none"
          /\ ~Spawns(c, 1))
         => flows'[c] = {}]_vars

\* C8: in a cascade, once an operation has failed, an operation that is
\* still running never performs its final step.
C8_CascadeFailureStopsRunning ==
  [][\A c \in calls : \A b \in BodyOps :
       (policy[c] = "cascade" /\ opPc[c][b] = "sleeping"
          /\ \E a \in BodyOps : flowP[c][a] = "fail")
         => opPc'[c][b] = "sleeping"]_vars

\* C9: in a tributary race, once the first operation has succeeded, a loser
\* that is still running never performs its final step.
C9_TributaryLosersNeverComplete ==
  [][\A c \in calls : \A b \in BodyOps :
       (policy[c] = "tributary" /\ body[c].kind = "race" /\ opPc[c][b] = "sleeping"
          /\ FirstSuccess(c) # 0)
         => opPc'[c][b] = "sleeping"]_vars

\* C10: a tributary whose body races its operations and in which every
\* launched operation fails resolves only by raising an error.
C10_TributaryAllFailRaises ==
  \A c \in calls :
    (Done(c) /\ policy[c] = "tributary" /\ body[c].kind = "race" /\ body[c].n >= 1
       /\ \A i \in OpIds : Launched(c, i) => flowP[c][i] = "fail")
      => callResult[c].kind = "error"

C10_Witness ==
  \E c \in calls :
    /\ Done(c)
    /\ policy[c] = "tributary"
    /\ body[c].kind = "race"
    /\ body[c].n >= 2
    /\ NoDeadline
    /\ \A i \in 1..body[c].n : flowP[c][i] = "fail"
    /\ callResult[c].kind = "error"

\* C11: a tributary whose body races its operations and in which every
\* launched operation fails raises an error that stands for all the
\* operation errors, not the error of one operation alone.
C11_TributaryAllFailAggregates ==
  \A c \in calls :
    (Done(c) /\ policy[c] = "tributary" /\ body[c].kind = "race" /\ body[c].n >= 2
       /\ NoDeadline /\ \A i \in OpIds : Launched(c, i) => flowP[c][i] = "fail")
      => (callResult[c].kind = "error" /\ \A k \in OpIds : callResult[c] # OpError(k))

C13_RejectedFutureImpliesFrozen ==
  \A c \in calls : \A i \in OpIds : future[c][i].kind = "error" => IsFrozen(c)

C13_Witness ==
  \E c \in calls :
    /\ future[c][1] = OpError(1)
    /\ IsFrozen(c)
    /\ callPc[c] = "awaitExec"
    /\ timer[c] # "fired"
    /\ bodyPc[c] = "sleeping"

\* C14: a call resolves once, to the value of its body or to one error, and
\* what it resolved to never changes; and a call whose body's promise has
\* settled, or that has a deadline configured, eventually resolves, its
\* operations all terminating.
C14_CallResolvesExactlyOnce ==
  /\ [][\A c \in calls : Done(c) => (Done(c)' /\ callResult'[c] = callResult[c])]_vars
  /\ [](\A c \in calls :
          Done(c) => \/ callResult[c].kind = "value" /\ callResult[c] = bodyP[c]
                     \/ callResult[c].kind = "error")
  /\ [](\A c \in calls : ~Done(c) => callResult[c] = Pending)
  /\ \A c \in OneCall :
       (callPc[c] # "idle" /\ (bodyP[c].kind # "pending" \/ ~NoDeadline)) ~> Done(c)

C14_Witness ==
  \E c \in calls :
    /\ Done(c)
    /\ body[c].kind = "race"
    /\ body[c].n = 0
    /\ callResult[c] = DeadlineExceeded(TimeoutMs)

\* C15: on a failing call the error raised is the error that ended the
\* body/deadline race, unchanged: freezing, settling and calling the onError
\* handler do not replace it.
C15_RaisesOriginalError ==
  \A c \in calls : (Done(c) /\ exec[c].kind = "error") => callResult[c] = exec[c]

\* the step calls freeze() in call c: the rejection handler of flow(), the
\* timer callback, or the orchestrator after its await
FreezeCalled(c) ==
  \/ \E i \in OpIds : thenP[c][i] = Pending /\ thenP'[c][i] = OpError(i)
  \/ timer[c] = "armed" /\ timer'[c] = "fired"
  \/ callPc[c] = "awaitExec" /\ callPc'[c] = "awaitSettle"
       /\ (policy[c] = "tributary" \/ exec'[c].kind = "error")

\* an event of call c itself has armed its token: a failed operation, its
\* deadline, or the orchestrator after its await
ArmedByOwnEvent(c) ==
  \/ \E i \in OpIds : thenP[c][i].kind = "error"
  \/ timer[c] = "fired"
  \/ callPc[c] \in {"awaitSettle", "done"}
       /\ (policy[c] = "tributary" \/ exec[c].kind = "error")

\* C16: each call has its own token and scope: when a call is invoked its
\* token is not armed and its scope tracks its own launches only, whatever
\* happened in earlier calls on the same Fjord; a step in which one call
\* freezes (failed operation, tributary success, deadline, error) leaves the
\* token and the tracking collection of every other call as they were; and a
\* token is armed exactly when an event of its own call armed it.
C16_CallsAreIsolated ==
  /\ [][\A c \in calls :
          (callPc[c] = "idle" /\ callPc'[c] # "idle")
            => (~IsFrozen(c)' /\ flows'[c] = 1..body[c].n)]_vars
  /\ [][\A c \in calls : \A d \in calls \ {c} :
          FreezeCalled(c) => (IsFrozen(d)' = IsFrozen(d) /\ flows'[d] = flows[d])]_vars
  /\ [](\A c \in calls : IsFrozen(c) <=> ArmedByOwnEvent(c))

C16_Witness ==
  \E c \in calls : \E d \in calls \ {c} :
    /\ IsFrozen(c)
    /\ thenP[c][1] = OpError(1)
    /\ callPc[c] = "done"
    /\ ~IsFrozen(d)
    /\ flows[d] # {}
    /\ callPc[d] = "awaitExec"

\* C17: the token is one-way and freeze() is idempotent: once isFrozen() is
\* true it is true in every later state, a freeze() on an armed token changes
\* nothing, and after any step that calls freeze(), whoever calls it and in
\* whatever order, the token is armed.
C17_TokenOneWayIdempotent ==
  /\ [][\A c \in calls : IsFrozen(c) => IsFrozen(c)']_vars
  /\ [][\A c \in calls : FreezeCalled(c) => IsFrozen(c)']_vars

C17_Witness ==
  \E c \in calls :
    /\ IsFrozen(c)
    /\ timer[c] = "fired"
    /\ thenP[c][1].kind = "error"
    /\ thenP[c][2].kind = "error"
    /\ exec[c].kind = "error"
    /\ Done(c)

\* flow() admits op i of call c in this step
Admits(c, i) == flowP[c][i] = "none" /\ flowP'[c][i] # "none"

C19_SettleNeverRaises ==
  \A c \in calls :
    /\ \A s \in {"orch", "body"} : settleRes[c][s] \in {"none", "waiting", "resolved"}
    /\ Done(c) => settleRes[c]["orch"] = "resolved"
    /\ (body[c].kind = "settleAwait" /\ bodyPc[c] = "done")
         => (settleRes[c]["body"] = "resolved" /\ bodyP[c] = BodyValue)
    /\ \A i \in OpIds :
         (flowP[c][i] = "fail" /\ future[c][i] # Pending) => future[c][i] = OpError(i)
    /\ (Done(c) /\ body[c].kind \notin {"all", "race"}) => callResult[c].src # "op"

C19_Witness ==
  \E c \in calls :
    /\ Done(c)
    /\ body[c].kind = "settleAwait"
    /\ flowP[c][1] = "fail"
    /\ flowP[c][2] = "ok"
    /\ future[c][1] = OpError(1)
    /\ settleRes[c]["body"] = "resolved"
    /\ settleRes[c]["orch"] = "resolved"
    /\ callResult[c] = BodyValue

\* C20: in a cascade whose body launches an operation that throws at once
\* and, without suspending, calls flow() again, the second call is refused
\* with the frozen error and its undertaking is never invoked.
C20_FlowAfterThrowingLaunchRefused ==
  \A c \in calls :
    (policy[c] = "cascade" /\ callPc[c] # "idle" /\ body[c].n >= 2
       /\ undertaking[c][1].fails /\ ~undertaking[c][1].sleeps)
      => (future[c][2] = ScopeClosed /\ runs[c][2] = 0 /\ 2 \notin flows[c])

\* the body's promise fulfilled, and not after the deadline timer had fired
BodyWonRace(c) == bodyP[c].kind = "value" /\ bodyAtFire[c] \in {"n/a", "value"}

OrchSettleBegins(c) == callPc[c] = "awaitExec" /\ callPc'[c] = "awaitSettle"

\* C22 (as stated): at both call sites, on every path, the token is armed
\* when the orchestrator calls settle(), and from then on no flow() call is
\* admitted into the scope.
C22_FrozenBeforeSettle ==
  /\ [][\A c \in calls : OrchSettleBegins(c) => IsFrozen(c)']_vars
  /\ [][\A c \in calls : \A i \in OpIds :
          callPc[c] \in {"awaitSettle", "done"} => ~Admits(c, i)]_vars

\* C22 (amended): the token is armed when the orchestrator calls settle() on
\* both paths of tributary and on the failure path of cascade; on the success
\* path of cascade the orchestrator leaves the token as it is, armed only if
\* an operation has failed or the deadline timer has fired; and once the
\* orchestrator has called settle(), flow() admits an operation only while
\* the token is not armed.
C22_FrozenBeforeSettleUnlessCascadeValue ==
  /\ [][\A c \in calls :
          (OrchSettleBegins(c) /\ (policy[c] = "tributary" \/ exec'[c].kind = "error"))
            => IsFrozen(c)']_vars
  /\ [][\A c \in calls :
          (OrchSettleBegins(c) /\ policy[c] = "cascade" /\ exec'[c].kind = "value")
            => /\ IsFrozen(c)' = IsFrozen(c)
               /\ IsFrozen(c) <=> (timer[c] = "fired" \/ \E i \in OpIds : thenP[c][i].kind = "error")]_vars
  /\ [][\A c \in calls : \A i \in OpIds :
          (callPc[c] \in {"awaitSettle", "done"} /\ Admits(c, i))
            => (~IsFrozen(c) /\ policy[c] = "cascade" /\ exec[c].kind = "value")]_vars

C22_Witness ==
  \E c \in calls :
    /\ policy[c] = "cascade"
    /\ callPc[c] = "awaitSettle"
    /\ exec[c] = BodyValue
    /\ ~IsFrozen(c)
    /\ flowP[c][ChildOp] = "pending"
    /\ ChildOp \in flows[c]
    /\ ChildOp \notin awaited[c]

\* the orchestrator of call c has called settle(): the scope drains, or the
\* call has returned
Draining(c) == callPc[c] \in {"awaitSettle", "done"}

\* C23: the policies differ only in how a resolved body is treated.  When a
\* tributary body has resolved the token is armed from the call of settle()
\* on, so an operation still running during the drain sees isFrozen() true;
\* when a cascade body has resolved the orchestrator does not arm the token:
\* with no operation failure and no deadline fired, isFrozen() is false
\* during the drain and when the call returns.  After a failure both arm it.
C23_PoliciesDifferOnSuccess ==
  /\ [][\A c \in calls :
          (OrchSettleBegins(c) /\ policy[c] = "tributary") => IsFrozen(c)']_vars
  /\ [](\A c \in calls :
          (Draining(c) /\ policy[c] = "tributary") => IsFrozen(c))
  /\ [](\A c \in calls :
          (Draining(c) /\ policy[c] = "cascade" /\ exec[c].kind = "value"
             /\ timer[c] # "fired" /\ \A i \in OpIds : flowP[c][i] # "fail")
            => (~IsFrozen(c) /\ (Done(c) => ~frozenAtDone[c])))
  /\ [](\A c \in calls : (Draining(c) /\ exec[c].kind = "error") => IsFrozen(c))

C23_Witness ==
  \E c \in calls :
    /\ policy[c] = "cascade"
    /\ callPc[c] = "awaitSettle"
    /\ exec[c] = BodyValue
    /\ timeout # 0
    /\ opPc[c][1] = "done"
    /\ opPc[c][2] = "sleeping"
    /\ ~IsFrozen(c)

\* the finally handler of flow() has run for op i of call c: the promise
\* flow() returned is settling or settled
Removed(c, i) ==
  \/ future[c][i] # Pending
  \/ \E k \in 1..Len(mq) : mq[k] \in {J("futureAdopt", c, i), J("futureSettle", c, i)}

\* every operation launched into the scope of call c has terminated
AllTerminal(c) == callPc[c] # "idle" /\ \A i \in OpIds : flowP[c][i] # "pending"

\* C24: the tracking collection holds exactly the operations flow() admitted
\* whose finally handler has not run; the step that admits an operation adds
\* it and nothing else changes the collection but the finally handler, which
\* removes its own operation; a tracked operation that has terminated, by
\* success or by failure, has its handlers queued, the finally handler last,
\* so that the event loop removes it; and once every launched operation has
\* terminated the collection only shrinks, reaches size zero and stays there.
C24_TrackingCollectionDrains ==
  /\ [](\A c \in calls : flows[c] = {i \in OpIds : Launched(c, i) /\ ~Removed(c, i)})
  /\ [][\A c \in calls : \A i \in OpIds :
          /\ Admits(c, i) => (i \notin flows[c] /\ i \in flows'[c])
          /\ (i \in flows[c] /\ i \notin flows'[c])
               => (EnabledFor("flowFinally", c, i) /\ flows'[c] = flows[c] \ {i})]_vars
  /\ [][\A c \in calls : AllTerminal(c) => flows'[c] \subseteq flows[c]]_vars
  /\ [](\A c \in calls : \A i \in flows[c] :
          flowP[c][i] \in {"ok", "fail"}
            => \E k \in 1..Len(mq) : mq[k] \in {J("flowThen", c, i), J("flowFinally", c, i)})
  /\ \A c \in OneCall : AllTerminal(c) ~> [](flows[c] = {})

C24_Witness ==
  \E c \in calls :
    /\ flowP[c][1] = "ok"
    /\ flowP[c][2] = "fail"
    /\ flowP[c][ChildOp] = "ok"
    /\ AllTerminal(c)
    /\ flows[c] = {}

\* the deadline timer of call c fires in this step
TimerFires(c) == timer[c] = "armed" /\ timer'[c] = "fired"

\* one timer per call, none without a deadline: it is set when the call is
\* invoked with a deadline configured, never set again, and fires once
OneTimerPerCall ==
  /\ [](\A c \in calls : timer[c] # "none" <=> (timeout # 0 /\ callPc[c] # "idle"))
  /\ [][\A c \in calls :
          /\ timer'[c] = "armed" => (timer[c] = "armed" \/ callPc[c] = "idle")
          /\ timer[c] = "fired" => timer'[c] = "fired"]_vars

\* the timer callback arms the token before its rejection reaches the race
ArmsBeforeRejecting ==
  /\ [][\A c \in calls :
          TimerFires(c) => (IsFrozen(c)' /\ raceP'[c] = raceP[c] /\ exec'[c] = exec[c]
                             /\ mq' = <<J("raceTimer", c, 0)>>)]_vars
  /\ [](\A c \in calls : \A x \in {raceP[c], exec[c], callResult[c]} :
          x.src = "timeout" => (IsFrozen(c) /\ timer[c] = "fired"
                                  /\ x = DeadlineExceeded(TimeoutMs)))

OrchSettleTracked(c) ==
  (1..body[c].n) \cup (IF settleOwner[c] = "orch" THEN awaited[c] ELSE {})

\* C27: a call never returns or raises while an operation that was tracked
\* when the orchestrator called settle() is still running: c is not resolved,
\* and no onError call is made, before all those operations have terminated.
C27_NoResolveWhileTrackedRuns ==
  \A c \in calls :
    (Done(c) \/ observed # <<>>)
      => \A i \in OrchSettleTracked(c) : flowP[c][i] # "pending"

\* the deadline timer of call c has fired after the body's promise settled
FiredLate(c) == timer[c] = "fired" /\ bodyAtFire[c] \in {"value", "error"}

InProgress(c, i) ==
  \/ runs[c][i] = 0 /\ \E k \in 1..Len(mq) : mq[k] = J("start", c, i)
  \/ runs[c][i] = 1 /\ opPc[c][i] = "sleeping"
  \/ runs[c][i] = 1 /\ opPc[c][i] = "done"
       /\ \E k \in 1..Len(mq) : mq[k] \in {J("adopt", c, i), J("flowSettle", c, i)}

====
